---- MODULE Spec2Model ----
(***************************************************************************)
(* ketoApp: the Product store, the FullDayIntake aggregate that the        *)
(* post_save signal of Product keeps, and the web and API operations that  *)
(* create, update and delete Products.                                     *)
(*                                                                         *)
(* Spec     : every request handler runs to completion before the next one *)
(*            starts (one worker).                                         *)
(* SpecConc : two workers run save-triggered recomputes step by step, each *)
(*            database statement being one step (autocommit, no            *)
(*            transaction around a handler).                               *)
(*                                                                         *)
(* The second half is the users app: User, the KetoAppUser profile that    *)
(* create_profile adds to it, and the Demand that the post_save signal of  *)
(* KetoAppUser derives from the profile.                                   *)
(*                                                                         *)
(* SpecFormulas   : a KetoAppUser instance with fields drawn from bounded  *)
(*                  sets, and direct calls of its calculate_* methods.     *)
(* SpecDemand     : registration and profile updates, one at a time.       *)
(* SpecDemandConc : two workers run profile updates statement by statement.*)
(* SpecLookup     : the Product handlers with a nutrient lookup that may   *)
(*                  fail.                                                  *)
(* SpecAccess     : SpecDemand with the two views that show a Demand.      *)
(* SpecOwnership  : the Product handlers with the user of each request.    *)
(* SpecReport     : the report form, the task queue and send_report.       *)
(* SpecMassUpdate : web creates and the two mass updates.                  *)
(* SpecForm       : the web create and update forms with unvalidated data. *)
(* SpecTokens     : the periodic task regenerate_tokens.                   *)
(***************************************************************************)
EXTENDS Integers, Sequences, FiniteSets, TLC

\* SQL NULL / Python None of a nullable column (null=True).
NULL == -1

\* Bounds of the model: the Products ever created, the KetoAppUser profiles,
\* and (SpecConc) the requests the workers take up.
MaxProducts == 2
MaxUsers == 2
MaxRequests == 3

\* KetoAppUser primary keys.
Users == 1..MaxUsers

\* Calendar days: date.today() and one other day (a selected_date of the web
\* create view).
Today == 1
Dates == {Today, Today + 1}

\* The grams a request may carry.
Grams == {1, 2}

\* GetConnection(name, grams).get_connection(): the answer the nutrient lookup
\* gives for g grams (calories, totalNutrients.CHOCDF/FAT/PROCNT .quantity):
\* numbers, or, for one of the masses, JSON nulls.
get_connection(g) ==
    IF g = 1
    THEN { [calories |-> 3, CHOCDF |-> 0, FAT |-> 2, PROCNT |-> 1] }
    ELSE { [calories |-> NULL, CHOCDF |-> NULL, FAT |-> NULL, PROCNT |-> NULL] }

VARIABLES
    products,   \* table calculator_product: Seq of rows, the primary key is the index
    fdis,       \* table calculator_fulldayintake: Seq of rows
    last,       \* what the most recent handler did (observation only)
    workers,    \* SpecConc: each worker's position in its handler and its locals
    requests,   \* SpecConc: the number of requests the workers have taken up
    auth_user,  \* table auth_user: the set of User primary keys
    ketoappuser,\* table users_ketoappuser: Seq of rows, the primary key is the index
    demand,     \* table users_demand: Seq of rows
    ulast,      \* what the most recent call or handler of the users app did (observation only)
    uworkers,   \* SpecDemandConc: each worker's position in its handler and its locals
    authtoken,  \* table authtoken_token (rows) and the number of keys generated (issued)
    celery,     \* the broker's queue: send_report messages not yet taken up
    clock       \* django.utils.timezone.now(), in days

\* The tables and observations of the users app, and all variables.
userVars == <<auth_user, ketoappuser, demand, ulast, uworkers>>
\* The token table, the task queue and the time.
taskVars == <<authtoken, celery, clock>>
vars == <<products, fdis, last, workers, requests, userVars, taskVars>>

Workers == {1, 2}

\* The product_name of the requests, character by character: a name without
\* digits.
ProductName == <<"e", "g", "g">>

\* A deleted Product row (the primary key is never reused).
Deleted ==
    [alive |-> FALSE, name |-> <<>>, date |-> NULL, grams |-> NULL, kcal |-> NULL,
     carb |-> NULL, fat |-> NULL, protein |-> NULL, user |-> {}]

Alive(ps) == {i \in DOMAIN ps : ps[i].alive}

\* Product(...) as Product.objects.create stores it: the many-to-many user
\* relation of a new row is empty.
Product(d, g, r) ==
    [alive |-> TRUE, name |-> ProductName, date |-> d, grams |-> g, kcal |-> r.calories,
     carb |-> r.CHOCDF, fat |-> r.FAT, protein |-> r.PROCNT, user |-> {}]

\* QuerySet.first() on the KetoAppUser relation: lowest primary key, or None.
First(S) == IF S = {} THEN NULL ELSE CHOOSE u \in S : \A v \in S : u <= v

\* (mutant) the total is passed on as the aggregate query gave it.
OrZero_Missing(x) == x

\* `x or 0`
OrZero(x) == IF x = NULL THEN 0 ELSE x

\* SQL SUM(f) over the live rows of date d from index i on: NULL values are
\* skipped, and the sum of no value is NULL.
RECURSIVE SumFrom(_, _, _, _)
SumFrom(ps, d, f, i) ==
    IF i > Len(ps) THEN NULL
    ELSE LET rest == SumFrom(ps, d, f, i + 1)
             row == ps[i]
         IN  IF row.alive /\ row.date = d /\ row[f] # NULL
             THEN IF rest = NULL THEN row[f] ELSE row[f] + rest
             ELSE rest

\* Product.objects.filter(date=self.date).aggregate(Sum(...)): filtered by date only.
Aggregate(ps, d) ==
    [total_kcal |-> SumFrom(ps, d, "kcal", 1),
     total_fat |-> SumFrom(ps, d, "fat", 1),
     total_protein |-> SumFrom(ps, d, "protein", 1),
     total_carbs |-> SumFrom(ps, d, "carb", 1)]

\* The aggregate of no row: every SUM is NULL.
NoTotals == [total_kcal |-> NULL, total_fat |-> NULL, total_protein |-> NULL,
             total_carbs |-> NULL]

\* The defaults dictionary of the upsert, from the totals the aggregate query
\* returned and from owner, the value of self.user.first().
Defaults(totals, owner) ==
    [total_kcal |-> OrZero(totals.total_kcal),
     total_carbs |-> OrZero(totals.total_carbs),
     total_fat |-> OrZero(totals.total_fat),
     total_protein |-> OrZero(totals.total_protein),
     user |-> owner]

FullDayIntake(d, defaults) ==
    [date |-> d, total_kcal |-> defaults.total_kcal, total_carbs |-> defaults.total_carbs,
     total_fat |-> defaults.total_fat, total_protein |-> defaults.total_protein,
     user |-> defaults.user]

\* The rows FullDayIntake.objects.get(date=d) looks at: the lookup is by date alone.
Hits(rows, d) == {i \in DOMAIN rows : rows[i].date = d}

\* (mutant) objects.create in place of update_or_create.
UpdateOrCreate_AlwaysCreate(rows, d, defaults) == Append(rows, FullDayIntake(d, defaults))

\* FullDayIntake.objects.update_or_create(date=d, defaults=...): no row: insert;
\* one row: overwrite the defaults' fields; several rows: get() raises
\* MultipleObjectsReturned and nothing is written.
UpdateOrCreate(rows, d, defaults) ==
    LET hits == Hits(rows, d)
    IN  IF hits = {} THEN Append(rows, FullDayIntake(d, defaults))
        ELSE IF Cardinality(hits) = 1
             THEN [i \in DOMAIN rows |->
                      IF i \in hits THEN FullDayIntake(d, defaults) ELSE rows[i]]
             ELSE rows

\* (mutant) the receiver's own values are added to the totals the date's row holds.
update_or_create_fulldayintake_Incremental(ps, rows, pid) ==
    LET self == ps[pid]
        hits == Hits(rows, self.date)
        prev == IF hits = {} THEN FullDayIntake(self.date, Defaults(NoTotals, First(self.user)))
                ELSE rows[CHOOSE i \in hits : TRUE]
    IN  UpdateOrCreate(rows, self.date,
            [total_kcal |-> prev.total_kcal + OrZero(self.kcal),
             total_carbs |-> prev.total_carbs + OrZero(self.carb),
             total_fat |-> prev.total_fat + OrZero(self.fat),
             total_protein |-> prev.total_protein + OrZero(self.protein),
             user |-> First(self.user)])

\* Product.update_or_create_fulldayintake(self), self = ps[pid], run without
\* interruption: the table after the call.
update_or_create_fulldayintake(ps, rows, pid) ==
    UpdateOrCreate(rows, ps[pid].date,
                   Defaults(Aggregate(ps, ps[pid].date), First(ps[pid].user)))

\* post_save of Product: every Model.save() and objects.create() ends here.
\* QuerySet.update() and Model.delete() send no post_save.
post_save_product(ps, rows, pid) == update_or_create_fulldayintake(ps, rows, pid)

\* A worker between requests.  op is the handler it runs, pid the Product it
\* saved (the signal's instance), u the request's user, totals what its aggregate
\* query returned, owner what its self.user.first() query returned.
Idle ==
    [pc |-> "idle", op |-> "none", pid |-> 0, u |-> NULL, totals |-> NoTotals,
     owner |-> NULL]

\* The record of a handler that has completed: the handler, the request's user
\* (creates only), self.user.first() of the Product it saved (the handlers that
\* end in post_save only) and that Product's date.
Done(op, u, owner, d) ==
    [op |-> op, user |-> u, owner |-> owner, date |-> d, stale |-> FALSE, again |-> FALSE]

\* The handlers that end with a call of update_or_create_fulldayintake.
Recomputing == {"web_create", "api_create", "api_update", "recompute"}
LastRecomputed == last.op \in Recomputing

\* Python None in a CharField column (gender, activity).
None == "None"

\* KetoAppUser.objects.create(user=instance): the row create_profile inserts,
\* every nullable column NULL.
KetoAppUser(user) ==
    [user |-> user, weight |-> NULL, height |-> NULL, age |-> NULL, gender |-> None,
     activity |-> None]

\* What a method returned, or the exception it raised.
Returned(v) == [raised |-> "none", value |-> v]
Raised(e) == [raised |-> e, value |-> NULL]

\* The record of a call or handler of the users app that has completed: what
\* ran, the KetoAppUser it ran on, the exception that left it and the value it
\* returned, and whether update_or_create_demand was invoked.
Called(op, pk, result, derived) ==
    [op |-> op, pk |-> pk, raised |-> result.raised, value |-> result.value,
     derived |-> derived]

\* A worker of the users app between requests.  pk is the KetoAppUser its
\* handler loaded, self the instance in its memory.
UIdle == [pc |-> "idle", pk |-> 0, self |-> KetoAppUser(NULL)]

\* Token.key of an instance whose save() has not run: the CharField's ''.
EmptyKey == 0

\* A row of authtoken_token: key is the primary key, user the OneToOneField,
\* created the day auto_now_add stored.
Token(key, user, created) == [key |-> key, user |-> user, created |-> created]

NoTokens == [rows |-> {}, issued |-> 0]

\* Token.objects.create(user=user) on day now: Token.save() generates the key
\* (a key no token had before), then inserts.
Token_objects_create(tab, user, now) ==
    [rows |-> tab.rows \cup {Token(tab.issued + 1, user, now)}, issued |-> tab.issued + 1]

\* create_auth_token, the second post_save receiver of User.
create_auth_token(created, user, tab, now) ==
    IF created THEN Token_objects_create(tab, user, now) ELSE tab

\* The users app before any request: no User, no profile, no Demand, no Token.
InitUsers ==
    /\ auth_user = {}
    /\ ketoappuser = <<>>
    /\ demand = <<>>
    /\ ulast = Called("none", 0, Returned(NULL), FALSE)
    /\ uworkers = [w \in Workers |-> UIdle]
    /\ authtoken = NoTokens

\* The calculator before any request: no Product, no FullDayIntake.  The users
\* of its requests are registered: each has its profile, as create_profile
\* made it, and its token, as create_auth_token made it.
Init ==
    /\ products = <<>>
    /\ fdis = <<>>
    /\ last = Done("none", NULL, NULL, NULL)
    /\ workers = [w \in Workers |-> Idle]
    /\ requests = 0
    /\ auth_user = Users
    /\ ketoappuser = [u \in Users |-> KetoAppUser(u)]
    /\ demand = <<>>
    /\ ulast = Called("none", 0, Returned(NULL), FALSE)
    /\ uworkers = [w \in Workers |-> UIdle]
    /\ authtoken = [rows |-> {Token(u, u, Today) : u \in Users}, issued |-> MaxUsers]
    /\ celery = <<>>
    /\ clock = Today

\* ProductMacroNutrientsCreate.post with a valid form: objects.create (post_save,
\* the relation still empty), user.add, save (post_save again).
ProductMacroNutrientsCreate(u, d, g, r) ==
    /\ Len(products) < MaxProducts
    /\ LET pid == Len(products) + 1
           created == Append(products, Product(d, g, r))
           rows1 == post_save_product(created, fdis, pid)
           added == [created EXCEPT ![pid].user = @ \cup {u}]
       IN  /\ products' = added
           /\ fdis' = post_save_product(added, rows1, pid)
           /\ last' = Done("web_create", u, First(added[pid].user), d)
    /\ UNCHANGED <<workers, requests, userVars, taskVars>>

\* ProductSerializer.create: the row as ProductViewSet.create leaves it; the
\* date is read-only in the serializer, so it is date.today().
ProductSerializer_create(ps, g, r) == Append(ps, Product(Today, g, r))

\* ProductViewSet.create: serializer.save() -> ProductSerializer.create -> post_save.
ProductViewSet_create(u, g, r) ==
    /\ Len(products) < MaxProducts
    /\ LET pid == Len(products) + 1
           created == ProductSerializer_create(products, g, r)
       IN  /\ products' = created
           /\ fdis' = post_save_product(created, fdis, pid)
           /\ last' = Done("api_create", u, First(created[pid].user), Today)
    /\ UNCHANGED <<workers, requests, userVars, taskVars>>

\* (mutant) a mass update that also moves the row to today.
Remeasured_Today(row, g, r) ==
    [row EXCEPT !.grams = g, !.kcal = r.calories, !.carb = r.CHOCDF,
                !.fat = r.FAT, !.protein = r.PROCNT, !.date = Today]

\* The five columns a mass update overwrites.
Remeasured(row, g, r) ==
    [row EXCEPT !.grams = g, !.kcal = r.calories, !.carb = r.CHOCDF,
                !.fat = r.FAT, !.protein = r.PROCNT]

\* ProductMacroNutrientsUpdate.post with a valid form: Product.objects.get(id=pk),
\* then Product.objects.filter(id=pk).update(...), which sends no post_save.
ProductMacroNutrientsUpdate(pid, g, r) ==
    /\ pid \in Alive(products)
    /\ products' = [products EXCEPT ![pid] = Remeasured(@, g, r)]
    /\ fdis' = fdis
    /\ last' = Done("web_update", NULL, NULL, products[pid].date)
    /\ UNCHANGED <<workers, requests, userVars, taskVars>>

\* ProductViewSet.update -> ProductSerializer.update: instance.save() -> post_save.
ProductViewSet_update(pid, g, r) ==
    /\ pid \in Alive(products)
    /\ LET saved == [products EXCEPT ![pid] = Remeasured(@, g, r)]
       IN  /\ products' = saved
           /\ fdis' = post_save_product(saved, fdis, pid)
           /\ last' = Done("api_update", NULL, First(saved[pid].user), products[pid].date)
    /\ UNCHANGED <<workers, requests, userVars, taskVars>>

\* ProductDeleteView (DeleteView.post -> self.object.delete()): no handler is
\* connected to a delete signal.  The record does not tell the two delete
\* handlers apart: they run the same statement.
ProductDeleteView(pid) ==
    /\ pid \in Alive(products)
    /\ products' = [products EXCEPT ![pid] = Deleted]
    /\ fdis' = fdis
    /\ last' = Done("delete", NULL, NULL, products[pid].date)
    /\ UNCHANGED <<workers, requests, userVars, taskVars>>

\* ProductViewSet.destroy: instance.delete().
ProductViewSet_destroy(pid) ==
    /\ pid \in Alive(products)
    /\ products' = [products EXCEPT ![pid] = Deleted]
    /\ fdis' = fdis
    /\ last' = Done("delete", NULL, NULL, products[pid].date)
    /\ UNCHANGED <<workers, requests, userVars, taskVars>>

\* A direct call product.update_or_create_fulldayintake().  The record notes
\* whether the date's row held other totals than the ones the call has written,
\* and whether the handler before this one ended with a recompute of the same
\* date and the same self.user.first().
Recompute(pid) ==
    /\ pid \in Alive(products)
    /\ products' = products
    /\ fdis' = update_or_create_fulldayintake(products, fdis, pid)
    /\ last' = [Done("recompute", NULL, First(products[pid].user), products[pid].date) EXCEPT
                   !.stale = \E i \in Hits(fdis, products[pid].date) :
                                \/ fdis'[i].total_kcal # fdis[i].total_kcal
                                \/ fdis'[i].total_fat # fdis[i].total_fat
                                \/ fdis'[i].total_protein # fdis[i].total_protein
                                \/ fdis'[i].total_carbs # fdis[i].total_carbs,
                   !.again = /\ LastRecomputed
                             /\ last.date = products[pid].date
                             /\ last.owner = First(products[pid].user)]
    /\ UNCHANGED <<workers, requests, userVars, taskVars>>

Next ==
    \/ \E u \in Users, d \in Dates, g \in Grams : \E r \in get_connection(g) :
          ProductMacroNutrientsCreate(u, d, g, r)
    \/ \E u \in Users, g \in Grams : \E r \in get_connection(g) : ProductViewSet_create(u, g, r)
    \/ \E pid \in DOMAIN products, g \in Grams : \E r \in get_connection(g) :
          ProductMacroNutrientsUpdate(pid, g, r)
    \/ \E pid \in DOMAIN products, g \in Grams : \E r \in get_connection(g) :
          ProductViewSet_update(pid, g, r)
    \/ \E pid \in DOMAIN products : ProductDeleteView(pid)
    \/ \E pid \in DOMAIN products : ProductViewSet_destroy(pid)
    \/ \E pid \in DOMAIN products : Recompute(pid)

Spec == Init /\ [][Next]_vars

(***************************************************************************)
(* SpecConc: the handlers that end in post_save, statement by statement.   *)
(* Django runs them in autocommit: the INSERT/UPDATE of the Product, the   *)
(* aggregate SELECT and update_or_create are separate transactions, and    *)
(* only update_or_create is atomic (SELECT ... FOR UPDATE, then UPDATE).   *)
(* When its SELECT finds no row nothing is locked, and the INSERT follows  *)
(* as a further step; FullDayIntake has no unique constraint.              *)
(***************************************************************************)

\* ProductViewSet.create up to the INSERT of Product.objects.create.
Begin_api_create(w, u, g, r) ==
    /\ workers[w].pc = "idle"
    /\ requests < MaxRequests
    /\ Len(products) < MaxProducts
    /\ products' = ProductSerializer_create(products, g, r)
    /\ workers' = [workers EXCEPT ![w] =
          [pc |-> "post_save", op |-> "api_create", pid |-> Len(products) + 1,
           u |-> u, totals |-> NoTotals, owner |-> NULL]]
    /\ requests' = requests + 1
    /\ UNCHANGED <<fdis, last, userVars, taskVars>>

\* ProductViewSet.update up to the UPDATE of instance.save().
Begin_api_update(w, pid, g, r) ==
    /\ workers[w].pc = "idle"
    /\ requests < MaxRequests
    /\ pid \in Alive(products)
    /\ products' = [products EXCEPT ![pid] = Remeasured(@, g, r)]
    /\ workers' = [workers EXCEPT ![w] =
          [pc |-> "post_save", op |-> "api_update", pid |-> pid,
           u |-> NULL, totals |-> NoTotals, owner |-> NULL]]
    /\ requests' = requests + 1
    /\ UNCHANGED <<fdis, last, userVars, taskVars>>

\* ProductMacroNutrientsCreate.post up to the INSERT of Product.objects.create.
Begin_web_create(w, u, d, g, r) ==
    /\ workers[w].pc = "idle"
    /\ requests < MaxRequests
    /\ Len(products) < MaxProducts
    /\ products' = Append(products, Product(d, g, r))
    /\ workers' = [workers EXCEPT ![w] =
          [pc |-> "post_save", op |-> "web_create", pid |-> Len(products) + 1,
           u |-> u, totals |-> NoTotals, owner |-> NULL]]
    /\ requests' = requests + 1
    /\ UNCHANGED <<fdis, last, userVars, taskVars>>

\* update_or_create_fulldayintake, lines 29-34: the aggregate query.
ReadTotals(w) ==
    /\ workers[w].pc = "post_save"
    /\ workers' = [workers EXCEPT ![w].pc = "owner",
                                  ![w].totals = Aggregate(products, products[workers[w].pid].date)]
    /\ UNCHANGED <<products, fdis, last, requests, userVars, taskVars>>

\* update_or_create_fulldayintake, line 48: the query self.user.first(), made
\* while the arguments of update_or_create are built.
ReadOwner(w) ==
    /\ workers[w].pc = "owner"
    /\ workers' = [workers EXCEPT ![w].pc = "upsert",
                                  ![w].owner = First(products[workers[w].pid].user)]
    /\ UNCHANGED <<products, fdis, last, requests, userVars, taskVars>>

\* The handler's statements after a post_save has returned: the web create
\* view goes on to user.add(...) and save(), which sends post_save again; the
\* API handlers are done.
AfterSignal(w) ==
    IF workers[w].op = "web_create"
    THEN /\ products' = [products EXCEPT ![workers[w].pid].user = @ \cup {workers[w].u}]
         /\ workers' = [workers EXCEPT ![w].pc = "post_save", ![w].op = "web_create_saved",
                                       ![w].totals = NoTotals, ![w].owner = NULL]
    ELSE /\ products' = products
         /\ workers' = [workers EXCEPT ![w] = Idle]

\* update_or_create, a row found: lock it, overwrite the defaults' fields, commit.
Upsert_update(w) ==
    /\ workers[w].pc = "upsert"
    /\ LET self == products[workers[w].pid]
       IN  /\ Cardinality(Hits(fdis, self.date)) = 1
           /\ fdis' = UpdateOrCreate(fdis, self.date,
                                     Defaults(workers[w].totals, workers[w].owner))
    /\ AfterSignal(w)
    /\ UNCHANGED <<last, requests, userVars, taskVars>>

\* update_or_create, no row found: get() raised DoesNotExist, create() is next.
Upsert_miss(w) ==
    /\ workers[w].pc = "upsert"
    /\ Hits(fdis, products[workers[w].pid].date) = {}
    /\ workers' = [workers EXCEPT ![w].pc = "insert"]
    /\ UNCHANGED <<products, fdis, last, requests, userVars, taskVars>>

\* update_or_create, several rows found: MultipleObjectsReturned leaves the
\* handler; the Product statement before it is already committed.
Upsert_multiple(w) ==
    /\ workers[w].pc = "upsert"
    /\ Cardinality(Hits(fdis, products[workers[w].pid].date)) > 1
    /\ workers' = [workers EXCEPT ![w] = Idle]
    /\ UNCHANGED <<products, fdis, last, requests, userVars, taskVars>>

\* The INSERT of get_or_create's create(): nothing makes it fail.
Upsert_insert(w) ==
    /\ workers[w].pc = "insert"
    /\ LET self == products[workers[w].pid]
       IN  fdis' = Append(fdis, FullDayIntake(self.date,
                                              Defaults(workers[w].totals, workers[w].owner)))
    /\ AfterSignal(w)
    /\ UNCHANGED <<last, requests, userVars, taskVars>>

NextConc ==
    \/ \E w \in Workers, u \in Users, g \in Grams : \E r \in get_connection(g) :
          Begin_api_create(w, u, g, r)
    \/ \E w \in Workers, pid \in DOMAIN products, g \in Grams : \E r \in get_connection(g) :
          Begin_api_update(w, pid, g, r)
    \/ \E w \in Workers, u \in Users, d \in Dates, g \in Grams : \E r \in get_connection(g) :
          Begin_web_create(w, u, d, g, r)
    \/ \E w \in Workers : ReadTotals(w)
    \/ \E w \in Workers : ReadOwner(w)
    \/ \E w \in Workers : Upsert_update(w)
    \/ \E w \in Workers : Upsert_miss(w)
    \/ \E w \in Workers : Upsert_multiple(w)
    \/ \E w \in Workers : Upsert_insert(w)

SpecConc == Init /\ [][NextConc]_vars

(***************************************************************************)
(* What the claims speak of.  The expected sums are computed here on their *)
(* own, over sets of rows, and not with the operators of the model above.  *)
(***************************************************************************)

\* The live Products of date d, and those of them that belong to user u.
OnDate(ps, d) == {i \in Alive(ps) : ps[i].date = d}
OwnedOn(ps, u, d) == {i \in OnDate(ps, d) : u \in ps[i].user}

\* The sum of field f over the rows S of ps, a null counting as 0.
RECURSIVE Total(_, _, _)
Total(ps, S, f) ==
    IF S = {} THEN 0
    ELSE LET i == CHOOSE j \in S : TRUE
         IN  (IF ps[i][f] = NULL THEN 0 ELSE ps[i][f]) + Total(ps, S \ {i}, f)

\* The four totals of an aggregate row are the sums over the rows S of ps.
HasTotalsOf(row, ps, S) ==
    /\ row.total_kcal = Total(ps, S, "kcal")
    /\ row.total_fat = Total(ps, S, "fat")
    /\ row.total_protein = Total(ps, S, "protein")
    /\ row.total_carbs = Total(ps, S, "carb")

AllIdle == \A w \in Workers : workers[w].pc = "idle"

\* C1 (as claimed): after a recompute for a product of user u on date d, the
\* FullDayIntake of (u, d) holds the sums over exactly the Products of u on d.
C1_TotalsOfOwnEntries ==
    (LastRecomputed /\ last.owner # NULL) =>
        \E i \in Hits(fdis, last.date) :
            /\ fdis[i].user = last.owner
            /\ HasTotalsOf(fdis[i], products, OwnedOn(products, last.owner, last.date))

\* C2 (as claimed): after a mass update through either path, the FullDayIntake
\* of the entry's date holds the sums over the entries' current values.
C2_MassUpdateRecomputes ==
    last.op \in {"web_update", "api_update"} =>
        /\ Hits(fdis, last.date) # {}
        /\ \A i \in Hits(fdis, last.date) :
              HasTotalsOf(fdis[i], products, OnDate(products, last.date))

\* C3 (as claimed): after a delete, the FullDayIntake of the entry's date still
\* exists and holds the sums over the remaining entries (all 0 when none is left).
C3_DeleteRecomputes ==
    last.op = "delete" =>
        /\ Hits(fdis, last.date) # {}
        /\ \A i \in Hits(fdis, last.date) :
              HasTotalsOf(fdis[i], products, OnDate(products, last.date))

\* C4 (as claimed): in every state, also with recomputes running in parallel,
\* there is at most one FullDayIntake row per (user, date).  The user of a row
\* is what self.user.first() returned, None included: the recomputes of a
\* Product that has no user yet all write the key (None, date).
C4_OneRowPerKey ==
    \A d \in Dates, u \in Users \cup {NULL} :
        Cardinality({i \in Hits(fdis, d) : fdis[i].user = u}) <= 1

\* C5 (as claimed): once concurrent recomputes of a key have all finished, its
\* aggregate holds the sums over the final entries (stated for the dates that
\* have a single row, so that a stale total is not one of a duplicated row).
C5_FinalTotalsAfterRace ==
    (AllIdle /\ \A d \in Dates : Cardinality(Hits(fdis, d)) <= 1) =>
        \A i \in DOMAIN fdis :
            HasTotalsOf(fdis[i], products, OnDate(products, fdis[i].date))

\* C6 (as claimed): after a recompute on date d, every user with entries on d
\* has an aggregate row of their own for d that holds their own entries' sums.
C6_AggregatesPerUser ==
    (LastRecomputed /\ last.owner # NULL) =>
        \A u \in Users :
            OwnedOn(products, u, last.date) # {} =>
                \E i \in Hits(fdis, last.date) :
                    /\ fdis[i].user = u
                    /\ HasTotalsOf(fdis[i], products, OwnedOn(products, u, last.date))

\* C7 (as claimed): a Product created through the web view or the API belongs
\* to exactly one user, the one who made the request.
C7_CreatedProductHasOwner ==
    last.op \in {"web_create", "api_create"} =>
        products[Len(products)].user = {last.user}

\* C8: a recompute that directly follows a recompute of the same date and the
\* same owner, with no entry change in between, leaves the table of aggregates
\* as it is: the same single row of the date, the same totals, the same owner.
C8_RecomputeIdempotent ==
    [][(/\ last'.op = "recompute"
        /\ LastRecomputed
        /\ last.date = last'.date
        /\ last.owner = last'.owner)
       => (/\ fdis' = fdis
           /\ Cardinality(Hits(fdis', last'.date)) = 1)]_vars

\* C8 witness: a second recompute in a row has run on a date with entries
\* whose sums are not all zero.
C8_Witness ==
    /\ last.again
    /\ \E i \in Hits(fdis, last.date) : fdis[i].total_kcal > 0 /\ fdis[i].total_fat > 0

\* C9: a recompute on a date that already has a FullDayIntake row, whatever its
\* totals, writes the sums over the date's current entries into that row, adds
\* no row and leaves the rows of other dates alone.
C9_RecomputeOverwrites ==
    [][(last'.op = "recompute" /\ Hits(fdis, last'.date) # {})
       => (/\ Len(fdis') = Len(fdis)
           /\ \A i \in DOMAIN fdis :
                 IF fdis[i].date = last'.date
                 THEN /\ fdis'[i].date = fdis[i].date
                      /\ HasTotalsOf(fdis'[i], products', OnDate(products', last'.date))
                 ELSE fdis'[i] = fdis[i])]_vars

\* C9 witness: a recompute has run on a date whose row held other totals than
\* the sums over the entries, and the date has entries with non-zero sums.
C9_Witness ==
    /\ last.op = "recompute"
    /\ last.stale
    /\ Total(products, OnDate(products, last.date), "kcal") > 0

\* C10: after a recompute, the four totals of the date's FullDayIntake are
\* integers >= 0, never null, also when entries of the date have null macros.
C10_TotalsNeverNull ==
    LastRecomputed =>
        /\ Hits(fdis, last.date) # {}
        /\ \A i \in Hits(fdis, last.date) :
              /\ fdis[i].total_kcal \in Nat
              /\ fdis[i].total_fat \in Nat
              /\ fdis[i].total_protein \in Nat
              /\ fdis[i].total_carbs \in Nat

\* C10 witness: a recompute has run on a date all of whose entries have null macros.
C10_Witness ==
    /\ LastRecomputed
    /\ OnDate(products, last.date) # {}
    /\ \A i \in OnDate(products, last.date) :
          products[i].kcal = NULL /\ products[i].fat = NULL
          /\ products[i].protein = NULL /\ products[i].carb = NULL

(***************************************************************************)
(* The users app: KetoAppUser's methods.  Python floats are modelled by    *)
(* exact integers: a BMR is held in hundredths (round(bmr, 2) has two      *)
(* decimals), an activity multiplier in tenths.                            *)
(***************************************************************************)

\* The field values of the instances the methods are called on; a
\* PositiveIntegerField takes 0, and with weight 0 and height 0 the BMR is
\* negative.
Weights == {0, 43, 55, 70}
Heights == {0, 155, 160, 175}
Ages == {21, 25, 30}
GenderChoices == {"Male", "Female"}
ActivityChoices == {"inactive", "low", "medium", "high", "very_high"}

\* (mutant) the Female constant with the sign of the Male one.
calculate_bmr_FemalePlus(self) ==
    IF self.gender \in GenderChoices
    THEN IF NULL \in {self.weight, self.height, self.age}
         THEN Raised("TypeError")
         ELSE Returned(999 * self.weight + 625 * self.height - 492 * self.age
                       + (IF self.gender = "Male" THEN 500 ELSE 16100))
    ELSE Raised("ValueError")

\* KetoAppUser.calculate_bmr, in hundredths: 9.99*int(weight) + 6.25*int(height)
\* - 4.92*int(age) + 5 or - 161, round(bmr, 2); int(None) raises TypeError, any
\* other gender raises ValueError before the fields are read.
calculate_bmr(self) ==
    IF self.gender = "Male"
    THEN IF NULL \in {self.weight, self.height, self.age}
         THEN Raised("TypeError")
         ELSE Returned(999 * self.weight + 625 * self.height - 492 * self.age + 500)
    ELSE IF self.gender = "Female"
         THEN IF NULL \in {self.weight, self.height, self.age}
              THEN Raised("TypeError")
              ELSE Returned(999 * self.weight + 625 * self.height - 492 * self.age
                            - 16100)
         ELSE Raised("ValueError")

\* activity_values, in tenths: 1.2, 1.4, 1.6, 1.8, 2.1.
activity_values ==
    ("inactive" :> 12) @@ ("low" :> 14) @@ ("medium" :> 16) @@ ("high" :> 18)
    @@ ("very_high" :> 21)

\* a / b truncated toward zero, as int() truncates a float.
TruncDiv(a, b) == IF a >= 0 THEN a \div b ELSE -((-a) \div b)

\* The largest power of two below n (n > 1): the binade of a float just below n.
RECURSIVE Pow2From(_, _)
Pow2From(p, n) == IF 2 * p < n THEN Pow2From(2 * p, n) ELSE p
Pow2Below(n) == Pow2From(1, n)

\* int(bmr * activity_value) for the doubles bmr (b hundredths) and
\* activity_value (m tenths).  The product of the two doubles differs from the
\* real product b*m/1000 by less than 10^-9 of it, so truncation gives the truncated
\* real product unless that is an integer N.  It is an integer only for a bmr
\* that is a multiple of 1.25, which a double holds exactly, so the product is
\* bmr times the double of the multiplier, rounded to 53 bits.  The doubles of
\* 1.6, 1.8 and 2.1 are above their decimals: the product is not below N.  The
\* double of 1.2 is 2^-52/5 below 1.2: the product is short of N by less than
\* half a unit in the last place and rounds to N.  The double of 1.4 is 2^-51/5
\* below 1.4: the product is short of N by bmr * 2^-51/5, which exceeds half a
\* unit in the last place, 2^-53 times the power of two below N, exactly when
\* 4*bmr > 5*Pow2Below(N); the float is then below N and int() gives N - 1.
IntOfFloatProduct(b, m) ==
    LET t == b * m
        N == TruncDiv(t, 1000)
    IN  IF m = 14 /\ t % 1000 = 0 /\ t > 0 /\ 4 * (b \div 100) > 5 * Pow2Below(N)
        THEN N - 1
        ELSE IF m = 14 /\ t % 1000 = 0 /\ t < 0 /\ 4 * ((-b) \div 100) > 5 * Pow2Below(-N)
             THEN N + 1
             ELSE N

\* KetoAppUser.calculate_daily_cmp: None when the activity is no key of
\* activity_values (calculate_bmr is then not called), int(bmr * value) otherwise.
calculate_daily_cmp(self) ==
    IF self.activity \in DOMAIN activity_values
    THEN LET bmr == calculate_bmr(self)
         IN  IF bmr.raised # "none" THEN bmr
             ELSE Returned(IntOfFloatProduct(bmr.value, activity_values[self.activity]))
    ELSE Returned(NULL)

\* (mutant) the quotient rounded up.
Macro_RoundedUp(cmp, share, per) ==
    IF cmp.raised # "none" THEN cmp
    ELSE IF cmp.value = NULL THEN Raised("TypeError")
         ELSE Returned(-((-(cmp.value * share)) \div (100 * per)))

\* cmp * share // per for the float share (in hundredths) and the int per: the
\* floor of the real quotient (the float product of an int below 2^31 with 0.05,
\* 0.8 or 0.15 is never on the wrong side of a multiple of per).  None * share
\* raises TypeError.
Macro(cmp, share, per) ==
    IF cmp.raised # "none" THEN cmp
    ELSE IF cmp.value = NULL THEN Raised("TypeError")
         ELSE Returned((cmp.value * share) \div (100 * per))

\* KetoAppUser.calculate_carbs: calculate_daily_cmp() * 0.05 // 4.
calculate_carbs(self) == Macro(calculate_daily_cmp(self), 5, 4)

\* (mutant) fat counted with the 4 kcal per gram of the other two.
calculate_fat_FourKcal(self) == Macro(calculate_daily_cmp(self), 80, 4)

\* KetoAppUser.calculate_fat: calculate_daily_cmp() * 0.8 // 9.
calculate_fat(self) == Macro(calculate_daily_cmp(self), 80, 9)

\* KetoAppUser.calculate_protein: calculate_daily_cmp() * 0.15 // 4.
calculate_protein(self) == Macro(calculate_daily_cmp(self), 15, 4)

\* A Demand row; the PositiveIntegerField columns store the floats' int().
Demand(pk, defaults) ==
    [keto_app_user |-> pk, kcal |-> defaults.kcal, fat |-> defaults.fat,
     protein |-> defaults.protein, carbs |-> defaults.carbs]

\* The Demand rows of the profile pk.
DemandsOf(rows, pk) == {i \in DOMAIN rows : rows[i].keto_app_user = pk}

\* Demand.objects.update_or_create(keto_app_user=self, defaults=...), run
\* without interruption: no row: insert; a row: overwrite the four values.
\* keto_app_user is a OneToOneField, so the table never holds two rows of a
\* profile.
DemandUpdateOrCreate(rows, pk, defaults) ==
    IF DemandsOf(rows, pk) = {} THEN Append(rows, Demand(pk, defaults))
    ELSE [i \in DOMAIN rows |->
             IF i \in DemandsOf(rows, pk) THEN Demand(pk, defaults) ELSE rows[i]]

\* (mutant) columns without the check of PositiveIntegerField.
PositiveCheck_Unchecked(defaults) == TRUE

\* The CHECK (column >= 0) that a PositiveIntegerField column carries in the
\* database: the INSERT or UPDATE of a negative value raises IntegrityError.
PositiveCheck(defaults) ==
    /\ defaults.kcal >= 0
    /\ defaults.fat >= 0
    /\ defaults.protein >= 0
    /\ defaults.carbs >= 0

\* KetoAppUser.update_or_create_demand(self), self being the instance of the
\* profile pk: the exception that leaves it, if any, and the table after it.
\* The four values are computed first, in the order cmp, fat, protein, carbs;
\* a None cmp raises nothing itself, the first product with it does.
update_or_create_demand(self, pk, rows) ==
    LET cmp == calculate_daily_cmp(self)
        fat == calculate_fat(self)
        protein == calculate_protein(self)
        carbs == calculate_carbs(self)
    IN  IF cmp.raised # "none" THEN [raised |-> cmp.raised, rows |-> rows]
        ELSE IF fat.raised # "none" THEN [raised |-> fat.raised, rows |-> rows]
        ELSE IF protein.raised # "none" THEN [raised |-> protein.raised, rows |-> rows]
        ELSE IF carbs.raised # "none" THEN [raised |-> carbs.raised, rows |-> rows]
        ELSE LET defaults == [kcal |-> cmp.value, fat |-> fat.value,
                              protein |-> protein.value, carbs |-> carbs.value]
             IN  IF PositiveCheck(defaults)
                 THEN [raised |-> "none",
                       rows |-> DemandUpdateOrCreate(rows, pk, defaults)]
                 ELSE [raised |-> "IntegrityError", rows |-> rows]

(***************************************************************************)
(* SpecFormulas: one KetoAppUser instance, its fields drawn from the sets  *)
(* above, None and values outside the choices included, and direct calls   *)
(* of its methods, as users/tests/test_models.py makes them.               *)
(***************************************************************************)

\* The calculator with empty tables and idle workers.
CalcAtRest ==
    /\ products = <<>>
    /\ fdis = <<>>
    /\ last = Done("none", NULL, NULL, NULL)
    /\ workers = [w \in Workers |-> Idle]
    /\ requests = 0
    /\ celery = <<>>
    /\ clock = Today

calcVars == <<products, fdis, last, workers, requests>>

InitFormulas ==
    /\ CalcAtRest
    /\ auth_user = {1}
    /\ \E w \in Weights \cup {NULL}, h \in Heights \cup {NULL}, a \in Ages \cup {NULL},
          g \in GenderChoices \cup {None, "Other"},
          act \in ActivityChoices \cup {None, "unknown"} :
          ketoappuser = << [user |-> 1, weight |-> w, height |-> h, age |-> a,
                            gender |-> g, activity |-> act] >>
    /\ demand = <<>>
    /\ ulast = Called("none", 0, Returned(NULL), FALSE)
    /\ uworkers = [w \in Workers |-> UIdle]
    /\ authtoken = create_auth_token(TRUE, 1, NoTokens, Today)

\* A call of a method that writes nothing.
Call(op, result) ==
    /\ ulast' = Called(op, 1, result, FALSE)
    /\ UNCHANGED <<calcVars, auth_user, ketoappuser, demand, uworkers, taskVars>>

Call_calculate_bmr == Call("calculate_bmr", calculate_bmr(ketoappuser[1]))
Call_calculate_daily_cmp == Call("calculate_daily_cmp", calculate_daily_cmp(ketoappuser[1]))
Call_calculate_carbs == Call("calculate_carbs", calculate_carbs(ketoappuser[1]))
Call_calculate_fat == Call("calculate_fat", calculate_fat(ketoappuser[1]))
Call_calculate_protein == Call("calculate_protein", calculate_protein(ketoappuser[1]))

\* instance.update_or_create_demand() called directly.
Call_update_or_create_demand ==
    LET done == update_or_create_demand(ketoappuser[1], 1, demand)
    IN  /\ demand' = done.rows
        /\ ulast' = Called("update_or_create_demand", 1, Raised(done.raised), TRUE)
        /\ UNCHANGED <<calcVars, auth_user, ketoappuser, uworkers, taskVars>>

NextFormulas ==
    \/ Call_calculate_bmr
    \/ Call_calculate_daily_cmp
    \/ Call_calculate_carbs
    \/ Call_calculate_fat
    \/ Call_calculate_protein
    \/ Call_update_or_create_demand

SpecFormulas == InitFormulas /\ [][NextFormulas]_vars

\* What the claims speak of: the instance of the last call, whether its three
\* measures are integers, and the BMR formula in hundredths.
Self == ketoappuser[ulast.pk]
Measured(self) == NULL \notin {self.weight, self.height, self.age}
MifflinStJeor(self, c) == 999 * self.weight + 625 * self.height - 492 * self.age + 100 * c

\* C11: for integer weight, height and age calculate_bmr returns
\* 9.99*weight + 6.25*height - 4.92*age + 5 for Male and ... - 161 for Female,
\* to two decimals (in hundredths here); Male 70/175/30 gives 1650.45 and
\* Female 55/160/25 gives 1265.45.
C11_BmrFormula ==
    (ulast.op = "calculate_bmr" /\ Measured(Self)) =>
        /\ Self.gender = "Male" =>
              ulast.raised = "none" /\ ulast.value = MifflinStJeor(Self, 5)
        /\ Self.gender = "Female" =>
              ulast.raised = "none" /\ ulast.value = MifflinStJeor(Self, -161)
        /\ (Self.gender = "Male" /\ Self.weight = 70 /\ Self.height = 175 /\ Self.age = 30)
              => ulast.value = 165045
        /\ (Self.gender = "Female" /\ Self.weight = 55 /\ Self.height = 160 /\ Self.age = 25)
              => ulast.value = 126545

\* C11 witness: calculate_bmr has returned 1265.45 for Female 55/160/25.
C11_Witness ==
    /\ ulast.op = "calculate_bmr"
    /\ Self.gender = "Female" /\ Self.weight = 55 /\ Self.height = 160 /\ Self.age = 25
    /\ ulast.value = 126545

\* The activity multipliers as the specification lists them, in tenths.
Multiplier(activity) ==
    CASE activity = "inactive" -> 12
      [] activity = "low" -> 14
      [] activity = "medium" -> 16
      [] activity = "high" -> 18
      [] activity = "very_high" -> 21

\* The BMR of a measured profile of gender Male or Female, in hundredths.
Bmr(self) == MifflinStJeor(self, IF self.gender = "Male" THEN 5 ELSE -161)

\* A profile from which every value can be derived.
Computable(self) ==
    /\ Measured(self)
    /\ self.gender \in GenderChoices
    /\ self.activity \in ActivityChoices

\* C12: for a profile with a recognized activity level calculate_daily_cmp
\* returns the integer floor(BMR * multiplier), the multipliers being 1.2, 1.4,
\* 1.6, 1.8 and 2.1 (BMR 1650.45, inactive: 1980); for an unrecognized or
\* absent activity level it returns None and raises nothing.  The floor is
\* stated for a BMR >= 0 only: int() truncates, so a negative product
\* (weight 0, height 0) is not floored either.
C12_CmpIsFloor ==
    ulast.op = "calculate_daily_cmp" =>
        /\ (Computable(Self) /\ Bmr(Self) >= 0) =>
              /\ ulast.raised = "none"
              /\ ulast.value = (Bmr(Self) * Multiplier(Self.activity)) \div 1000
        /\ Self.activity \notin ActivityChoices =>
              ulast.raised = "none" /\ ulast.value = NULL

\* C13: for a computable TDEE the targets are carbs = floor(TDEE*0.05/4),
\* fat = floor(TDEE*0.80/9), protein = floor(TDEE*0.15/4), written here as
\* floor(TDEE/80), floor(4*TDEE/45), floor(3*TDEE/80); the Demand row that
\* update_or_create_demand writes (for a TDEE >= 0: the columns take no
\* negative value) holds kcal = TDEE and these three values;
\* TDEE 1980 gives 24, 176 and 74.
C13_MacrosOfTdee ==
    LET tdee == calculate_daily_cmp(Self).value
    IN  /\ (ulast.op = "calculate_carbs" /\ Computable(Self)) =>
              ulast.raised = "none" /\ ulast.value = tdee \div 80
        /\ (ulast.op = "calculate_fat" /\ Computable(Self)) =>
              ulast.raised = "none" /\ ulast.value = (4 * tdee) \div 45
        /\ (ulast.op = "calculate_protein" /\ Computable(Self)) =>
              ulast.raised = "none" /\ ulast.value = (3 * tdee) \div 80
        /\ (ulast.op = "update_or_create_demand" /\ Computable(Self) /\ tdee >= 0) =>
              /\ ulast.raised = "none"
              /\ Cardinality(DemandsOf(demand, ulast.pk)) = 1
              /\ \A i \in DemandsOf(demand, ulast.pk) :
                    /\ demand[i].kcal = tdee
                    /\ demand[i].carbs = tdee \div 80
                    /\ demand[i].fat = (4 * tdee) \div 45
                    /\ demand[i].protein = (3 * tdee) \div 80
                    /\ tdee = 1980 =>
                          /\ demand[i].carbs = 24
                          /\ demand[i].fat = 176
                          /\ demand[i].protein = 74

\* C13 witness: update_or_create_demand has written the row of TDEE 1980.
C13_Witness ==
    /\ ulast.op = "update_or_create_demand"
    /\ Computable(Self)
    /\ \E i \in DemandsOf(demand, ulast.pk) :
          demand[i] = [keto_app_user |-> ulast.pk, kcal |-> 1980, fat |-> 176,
                       protein |-> 74, carbs |-> 24]

(***************************************************************************)
(* SpecDemand: registration, log-in and the two profile update handlers,   *)
(* one request at a time.  Model.save() writes the row and then sends      *)
(* post_save; an exception of a receiver leaves save() and the view after  *)
(* the row is written.                                                     *)
(***************************************************************************)

\* The five fields a request carries.
ProfileData(w, h, a, g, act) ==
    [weight |-> w, height |-> h, age |-> a, gender |-> g, activity |-> act]

\* Request bodies: three complete profiles and four with a null, which
\* ParameterSerializer accepts (null=True makes a field optional and nullable).
Payloads ==
    { ProfileData(70, 175, 30, "Male", "inactive"),
      ProfileData(55, 160, 25, "Female", "medium"),
      ProfileData(43, 155, 21, "Male", "low"),
      ProfileData(70, 175, 30, None, "inactive"),
      ProfileData(70, 175, 30, "Male", None),
      ProfileData(NULL, 175, 30, "Male", "inactive"),
      ProfileData(70, 175, 30, None, None) }

\* setattr(instance, field, value) for the five fields.
Assign(self, data) ==
    [user |-> self.user, weight |-> data.weight, height |-> data.height,
     age |-> data.age, gender |-> data.gender, activity |-> data.activity]

\* request.user.ketoappuser: the primary key of the profile of the user u.
ProfileOf(profiles, u) == CHOOSE i \in DOMAIN profiles : profiles[i].user = u

ProfilesOf(profiles, u) == {i \in DOMAIN profiles : profiles[i].user = u}

\* (mutant) create_profile without its condition, on a table without the
\* unique constraint of the OneToOneField.
create_profile_Unguarded(created, u, profiles) == Append(profiles, KetoAppUser(u))

\* create_profile(sender, instance, created): the profile table after it.
create_profile(created, u, profiles) ==
    IF created /\ ProfilesOf(profiles, u) = {}
    THEN Append(profiles, KetoAppUser(u))
    ELSE profiles

\* (mutant) create_or_update_demand without "if not created".
create_or_update_demand_Always(created, self, pk, rows) ==
    LET done == update_or_create_demand(self, pk, rows)
    IN  [derived |-> TRUE, raised |-> done.raised, rows |-> done.rows]

\* create_or_update_demand(sender, instance, created): whether it called
\* update_or_create_demand, the exception that left it, the Demand table.
create_or_update_demand(created, self, pk, rows) ==
    IF ~created
    THEN LET done == update_or_create_demand(self, pk, rows)
         IN  [derived |-> TRUE, raised |-> done.raised, rows |-> done.rows]
    ELSE [derived |-> FALSE, raised |-> "none", rows |-> rows]

InitDemand == CalcAtRest /\ InitUsers

\* Register.post with a valid form: form.save() creates the User; its
\* post_save runs create_profile, whose objects.create sends the profile's
\* post_save with created=True, and create_auth_token.
Register(u) ==
    /\ requests < MaxRequests
    /\ u \notin auth_user
    /\ LET profiles == create_profile(TRUE, u, ketoappuser)
           pk == Len(profiles)
           sig == IF Len(profiles) > Len(ketoappuser)
                  THEN create_or_update_demand(TRUE, profiles[pk], pk, demand)
                  ELSE [derived |-> FALSE, raised |-> "none", rows |-> demand]
       IN  /\ auth_user' = auth_user \cup {u}
           /\ ketoappuser' = profiles
           /\ demand' = sig.rows
           /\ ulast' = Called("register", pk, Raised(sig.raised), sig.derived)
    /\ authtoken' = create_auth_token(TRUE, u, authtoken, clock)
    /\ requests' = requests + 1
    /\ UNCHANGED <<products, fdis, last, workers, uworkers, celery, clock>>

\* LoginView: login() saves the User's last_login, post_save with
\* created=False reaches create_profile.
LoginView(u) ==
    /\ requests < MaxRequests
    /\ u \in auth_user
    /\ ketoappuser' = create_profile(FALSE, u, ketoappuser)
    /\ ulast' = Called("login", ProfileOf(ketoappuser', u), Returned(NULL), FALSE)
    /\ requests' = requests + 1
    /\ UNCHANGED <<products, fdis, last, workers, auth_user, demand, uworkers, taskVars>>

\* instance.save() of an existing profile and the post_save it sends.
SaveProfile(op, pk, data) ==
    LET self == Assign(ketoappuser[pk], data)
        sig == create_or_update_demand(FALSE, self, pk, demand)
    IN  /\ ketoappuser' = [ketoappuser EXCEPT ![pk] = self]
        /\ demand' = sig.rows
        /\ ulast' = Called(op, pk, Raised(sig.raised), sig.derived)

\* The checks of the model form (no field has blank=True, so each is
\* required and a choice field takes a choice) and of form_valid.
FormValid(data) ==
    /\ NULL \notin {data.weight, data.height, data.age}
    /\ data.gender \in GenderChoices
    /\ data.activity \in ActivityChoices

\* KetoAppUserUpdateView.post on the profile pk of the URL, by a logged-in user.
KetoAppUserUpdateView(pk, data) ==
    /\ requests < MaxRequests
    /\ auth_user # {}
    /\ pk \in DOMAIN ketoappuser
    /\ IF FormValid(data)
       THEN SaveProfile("web_update", pk, data)
       ELSE /\ ulast' = Called("form_invalid", pk, Returned(NULL), FALSE)
            /\ UNCHANGED <<ketoappuser, demand>>
    /\ requests' = requests + 1
    /\ UNCHANGED <<products, fdis, last, workers, auth_user, uworkers, taskVars>>

\* PersonalParametersViewSet.update by the user u: get_object is the user's
\* own profile, serializer.save() sets the fields and saves the instance.
PersonalParametersViewSet_update(u, data) ==
    /\ requests < MaxRequests
    /\ u \in auth_user
    /\ SaveProfile("api_update", ProfileOf(ketoappuser, u), data)
    /\ requests' = requests + 1
    /\ UNCHANGED <<products, fdis, last, workers, auth_user, uworkers, taskVars>>

NextDemand ==
    \/ \E u \in Users : Register(u)
    \/ \E u \in Users : LoginView(u)
    \/ \E pk \in 1..MaxUsers, data \in Payloads : KetoAppUserUpdateView(pk, data)
    \/ \E u \in Users, data \in Payloads : PersonalParametersViewSet_update(u, data)

SpecDemand == InitDemand /\ [][NextDemand]_vars


\* C14: when the saved profile's gender is neither Male nor Female, the
\* derivation fails with the invalid-profile error (ValueError "Invalid gender
\* value.") and the Demand table is left as it was, whatever the other
\* fields are, an absent activity level included.
C14_BadGenderRefused ==
    [][(ulast'.derived /\ ketoappuser'[ulast'.pk].gender \notin GenderChoices)
          => (ulast'.raised = "ValueError" /\ demand' = demand)]_vars

\* C15: when a profile is saved with weight, height or age missing, or with an
\* unrecognized or absent activity level, the derivation writes no Demand and
\* no exception leaves the update.
C15_IncompleteIsQuiet ==
    [][(/\ ulast'.derived
        /\ \/ ~Measured(ketoappuser'[ulast'.pk])
           \/ ketoappuser'[ulast'.pk].activity \notin ActivityChoices)
          => (ulast'.raised = "none" /\ demand' = demand)]_vars

(***************************************************************************)
(* SpecDemandConc: the two update handlers run by two workers.  A worker   *)
(* saves the profile row, then derives the Demand from the instance it     *)
(* holds in memory and runs update_or_create, whose steps are a locked     *)
(* get that updates the row it finds, and after a miss an INSERT, which    *)
(* the unique constraint of Demand.keto_app_user turns into an update      *)
(* when another worker inserted first.                                     *)
(***************************************************************************)

\* The defaults that update_or_create_demand passes for the instance self.
Derived(self) ==
    [kcal |-> calculate_daily_cmp(self).value, fat |-> calculate_fat(self).value,
     protein |-> calculate_protein(self).value, carbs |-> calculate_carbs(self).value]

\* The exception that the four calculations of update_or_create_demand raise.
DerivationRaises(self) == update_or_create_demand(self, 0, <<>>).raised

\* (mutant) the INSERT on a table without the unique constraint.
InsertDemand_NoUnique(rows, pk, defaults) == Append(rows, Demand(pk, defaults))

\* The create() of update_or_create after a miss: the INSERT, or on the
\* IntegrityError of the OneToOneField the get() and the update of that row.
InsertDemand(rows, pk, defaults) ==
    IF DemandsOf(rows, pk) = {} THEN Append(rows, Demand(pk, defaults))
    ELSE [i \in DOMAIN rows |->
             IF i \in DemandsOf(rows, pk) THEN Demand(pk, defaults) ELSE rows[i]]

\* instance.save() of a worker: the row is written, post_save is pending.
BeginSave(w, pk, data) ==
    /\ requests < MaxRequests
    /\ uworkers[w].pc = "idle"
    /\ ketoappuser' = [ketoappuser EXCEPT ![pk] = Assign(ketoappuser[pk], data)]
    /\ uworkers' = [uworkers EXCEPT ![w] =
                       [pc |-> "get", pk |-> pk, self |-> Assign(ketoappuser[pk], data)]]
    /\ requests' = requests + 1
    /\ UNCHANGED <<products, fdis, last, workers, auth_user, demand, ulast, taskVars>>

Begin_profile_web_update(w, pk, data) ==
    /\ auth_user # {}
    /\ pk \in DOMAIN ketoappuser
    /\ FormValid(data)
    /\ BeginSave(w, pk, data)

Begin_profile_api_update(w, u, data) ==
    /\ u \in auth_user
    /\ BeginSave(w, ProfileOf(ketoappuser, u), data)

\* post_save: the four calculations on the worker's instance, then the
\* get() of update_or_create under select_for_update and, on a hit, the
\* update of the row.
Demand_get(w) ==
    LET self == uworkers[w].self
        pk == uworkers[w].pk
    IN  /\ uworkers[w].pc = "get"
        /\ IF DerivationRaises(self) # "none"
           THEN /\ ulast' = Called("update", pk, Raised(DerivationRaises(self)), TRUE)
                /\ uworkers' = [uworkers EXCEPT ![w] = UIdle]
                /\ UNCHANGED demand
           ELSE IF DemandsOf(demand, pk) # {}
           THEN /\ demand' = DemandUpdateOrCreate(demand, pk, Derived(self))
                /\ ulast' = Called("update", pk, Returned(NULL), TRUE)
                /\ uworkers' = [uworkers EXCEPT ![w] = UIdle]
           ELSE /\ uworkers' = [uworkers EXCEPT ![w].pc = "create"]
                /\ UNCHANGED <<demand, ulast>>
        /\ UNCHANGED <<products, fdis, last, workers, requests, auth_user, ketoappuser, taskVars>>

\* The create() after the miss.
Demand_create(w) ==
    LET self == uworkers[w].self
        pk == uworkers[w].pk
    IN  /\ uworkers[w].pc = "create"
        /\ demand' = InsertDemand(demand, pk, Derived(self))
        /\ ulast' = Called(IF DemandsOf(demand, pk) = {} THEN "insert" ELSE "conflict",
                           pk, Returned(NULL), TRUE)
        /\ uworkers' = [uworkers EXCEPT ![w] = UIdle]
        /\ UNCHANGED <<products, fdis, last, workers, requests, auth_user, ketoappuser, taskVars>>

NextDemandConc ==
    \/ \E u \in Users : Register(u)
    \/ \E w \in Workers, pk \in 1..MaxUsers, data \in Payloads : Begin_profile_web_update(w, pk, data)
    \/ \E w \in Workers, u \in Users, data \in Payloads : Begin_profile_api_update(w, u, data)
    \/ \E w \in Workers : Demand_get(w)
    \/ \E w \in Workers : Demand_create(w)

SpecDemandConc == InitDemand /\ [][NextDemandConc]_vars

\* No update is in progress.
Quiescent == \A w \in Workers : uworkers[w].pc = "idle"

\* C16: in every quiescent state, also after concurrent updates of one
\* profile, a stored profile that is complete and valid (which it can only be
\* after an update) has a Demand row whose kcal, fat, protein and carbs are
\* the values derived from the stored fields.
C16_DemandMatchesProfile ==
    Quiescent =>
        \A pk \in DOMAIN ketoappuser :
            Computable(ketoappuser[pk]) =>
                \E i \in DemandsOf(demand, pk) :
                    demand[i] = Demand(pk, Derived(ketoappuser[pk]))

\* C17: there is at most one Demand row per profile, also when two updates of
\* one profile run update_or_create_demand concurrently.
C17_OneDemandPerProfile ==
    \A pk \in DOMAIN ketoappuser : Cardinality(DemandsOf(demand, pk)) <= 1

\* C17 witness: a worker whose get() missed has run its create() after another
\* worker inserted the row of the same profile.
C17_Witness ==
    /\ ulast.op = "conflict"
    /\ Cardinality(DemandsOf(demand, ulast.pk)) = 1

\* C18: every User has exactly one KetoAppUser profile from its creation on:
\* create_profile creates it when the User is created, and saving an existing
\* User again creates no second one; no profile is without its User.
C18_OneProfilePerUser ==
    /\ \A u \in auth_user : Cardinality(ProfilesOf(ketoappuser, u)) = 1
    /\ \A i \in DOMAIN ketoappuser : ketoappuser[i].user \in auth_user

\* C18 witness: an existing User has been saved again (log-in) and has one profile.
C18_Witness ==
    /\ ulast.op = "login"
    /\ Cardinality(ProfilesOf(ketoappuser, ketoappuser[ulast.pk].user)) = 1

\* C19: creating a user, which creates the empty profile, does not invoke the
\* derivation and writes no Demand; the first Demand row of a profile appears
\* only through a later save (web or API update) of that existing profile.
C19_NoDemandOnCreation ==
    [][/\ ulast'.op = "register" =>
             /\ ~ulast'.derived
             /\ demand' = demand
             /\ DemandsOf(demand', ulast'.pk) = {}
       /\ \A pk \in DOMAIN ketoappuser' :
             (DemandsOf(demand, pk) = {} /\ DemandsOf(demand', pk) # {}) =>
                 /\ pk \in DOMAIN ketoappuser
                 /\ ulast'.op \in {"web_update", "api_update"}
                 /\ ulast'.pk = pk
                 /\ ulast'.derived]_vars

\* C19 witness: a user has just been registered, the new profile has no
\* Demand, and a profile updated earlier has one.
C19_Witness ==
    /\ ulast.op = "register"
    /\ DemandsOf(demand, ulast.pk) = {}
    /\ demand # <<>>

(***************************************************************************)
(* SpecLookup: the four handlers that call the food API, with the answers  *)
(* get_connection can have: the JSON of a recognized food, a JSON body     *)
(* that lacks keys the handlers subscript, and an exception of             *)
(* requests.get or of result.json().                                       *)
(***************************************************************************)

\* A key that the JSON body does not have.
MISSING == -2

NoJson == [calories |-> MISSING, CHOCDF |-> MISSING, FAT |-> MISSING, PROCNT |-> MISSING]

\* Bodies without some of the keys: an unrecognized food (calories 0 and an
\* empty totalNutrients), a body without FAT, an error body.
Incomplete ==
    { [calories |-> 0, CHOCDF |-> MISSING, FAT |-> MISSING, PROCNT |-> MISSING],
      [calories |-> 3, CHOCDF |-> 0, FAT |-> MISSING, PROCNT |-> 1],
      NoJson }

\* What GetConnection(name, grams).get_connection() does: returns a body or raises.
Responses(g) ==
    {[raised |-> "none", json |-> r] : r \in get_connection(g) \cup Incomplete}
        \cup {[raised |-> "RequestException", json |-> NoJson]}

\* (mutant) the four values taken from the body as it is.
Quantities_Unchecked(resp) == Returned(resp.json)

\* product_request['calories'] and product_request['totalNutrients'][k]['quantity']
\* for CHOCDF, FAT and PROCNT: a KeyError when a key is missing.  The handlers
\* evaluate them before their first write.
Quantities(resp) ==
    IF resp.raised # "none" THEN Raised(resp.raised)
    ELSE IF MISSING \in {resp.json.calories, resp.json.CHOCDF, resp.json.FAT,
                         resp.json.PROCNT}
         THEN Raised("KeyError")
         ELSE Returned(resp.json)

\* The exception leaves the handler of the user u for the date d: nothing was
\* written.
LookupFailure(u, d) ==
    /\ last' = Done("lookup_failed", u, NULL, d)
    /\ UNCHANGED <<products, fdis, workers, requests, userVars, taskVars>>

\* ProductMacroNutrientsCreate.post.  Here the table takes one product less
\* than MaxProducts; a create whose lookup fails adds none and needs no bound.
Lookup_web_create(u, d, g, resp) ==
    IF Quantities(resp).raised = "none"
    THEN /\ Len(products) < MaxProducts - 1
         /\ ProductMacroNutrientsCreate(u, d, g, Quantities(resp).value)
    ELSE LookupFailure(u, d)

\* ProductViewSet.create
Lookup_api_create(u, g, resp) ==
    IF Quantities(resp).raised = "none"
    THEN /\ Len(products) < MaxProducts - 1
         /\ ProductViewSet_create(u, g, Quantities(resp).value)
    ELSE LookupFailure(u, Today)

\* ProductMacroNutrientsUpdate.post
Lookup_web_update(pid, g, resp) ==
    IF Quantities(resp).raised = "none"
    THEN ProductMacroNutrientsUpdate(pid, g, Quantities(resp).value)
    ELSE pid \in Alive(products) /\ LookupFailure(NULL, products[pid].date)

\* ProductViewSet.update
Lookup_api_update(pid, g, resp) ==
    IF Quantities(resp).raised = "none"
    THEN ProductViewSet_update(pid, g, Quantities(resp).value)
    ELSE pid \in Alive(products) /\ LookupFailure(NULL, products[pid].date)

NextLookup ==
    \/ \E u \in Users, d \in Dates, g \in Grams : \E resp \in Responses(g) :
          Lookup_web_create(u, d, g, resp)
    \/ \E u \in Users, g \in Grams : \E resp \in Responses(g) : Lookup_api_create(u, g, resp)
    \/ \E pid \in DOMAIN products, g \in Grams : \E resp \in Responses(g) :
          Lookup_web_update(pid, g, resp)
    \/ \E pid \in DOMAIN products, g \in Grams : \E resp \in Responses(g) :
          Lookup_api_update(pid, g, resp)

SpecLookup == Init /\ [][NextLookup]_vars

\* C20: when the lookup of an add-entry or mass-update handler fails or its
\* answer lacks one of calories, CHOCDF, FAT, PROCNT, no Product row and no
\* FullDayIntake row is created or changed; said the other way round as well:
\* a row that a handler has created or changed holds four values that the
\* answer did contain.
C20_FailedLookupWritesNothing ==
    [][/\ last'.op = "lookup_failed" => (products' = products /\ fdis' = fdis)
       /\ \A i \in DOMAIN products' :
             (i \notin DOMAIN products \/ products'[i] # products[i]) =>
                 MISSING \notin {products'[i].kcal, products'[i].carb,
                                 products'[i].fat, products'[i].protein}]_vars

\* C20 witness: a lookup has failed while the store holds a product and its
\* aggregate.
C20_Witness ==
    /\ last.op = "lookup_failed"
    /\ Alive(products) # {}
    /\ fdis # <<>>

\* C21: every Demand row that update_or_create_demand has persisted holds a
\* kcal, fat, protein and carbs that are integers >= 0, for every profile with
\* weight, height and age integers >= 0 and a recognized gender and activity.
C21_DemandNonNegative ==
    (ulast.op = "update_or_create_demand" /\ Computable(Self)) =>
        \A i \in DOMAIN demand :
            /\ demand[i].kcal \in Nat
            /\ demand[i].fat \in Nat
            /\ demand[i].protein \in Nat
            /\ demand[i].carbs \in Nat

\* C21 witness: update_or_create_demand has persisted the row of a profile
\* with weight 0, whose TDEE is still positive.
C21_Witness ==
    /\ ulast.op = "update_or_create_demand"
    /\ Computable(Self)
    /\ Self.weight = 0
    /\ DemandsOf(demand, ulast.pk) # {}

\* C30: in every Demand derived from a TDEE >= 0 the energy of the macro
\* targets does not exceed the calorie target, 4*carbs + 9*fat + 4*protein
\* <= kcal, and is short of it by less than 17.
C30_MacroEnergyWithinKcal ==
    (ulast.op = "update_or_create_demand" /\ ulast.raised = "none") =>
        \A i \in DemandsOf(demand, ulast.pk) :
            LET energy == 4 * demand[i].carbs + 9 * demand[i].fat + 4 * demand[i].protein
            IN  demand[i].kcal >= 0 =>
                    /\ energy <= demand[i].kcal
                    /\ demand[i].kcal - energy < 17

\* C30 witness: a Demand has been derived whose macro energy is short of a
\* positive kcal.
C30_Witness ==
    /\ ulast.op = "update_or_create_demand"
    /\ \E i \in DemandsOf(demand, ulast.pk) :
          /\ demand[i].kcal > 0
          /\ 4 * demand[i].carbs + 9 * demand[i].fat + 4 * demand[i].protein < demand[i].kcal

(***************************************************************************)
(* SpecAccess: SpecDemand with the two views that show a Demand.  The      *)
(* primary key of a Demand row is its index in the table.                  *)
(***************************************************************************)

\* (mutant) the row of the URL's pk, whoever owns it.
DemandDetailView_get_object_AnyOwner(rows, profile, pk) ==
    IF pk \in DOMAIN rows THEN Returned(pk) ELSE [raised |-> "Http404", value |-> pk]

\* DemandDetailView.get_object: the row with the URL's pk in get_queryset(),
\* which holds the rows of request.user.ketoappuser, or Http404; the owner
\* test that follows passes for every row of that queryset.  The value is the
\* pk asked for.
DemandDetailView_get_object(rows, profile, pk) ==
    IF pk \in DemandsOf(rows, profile) THEN Returned(pk)
    ELSE [raised |-> "Http404", value |-> pk]

\* DemandDetailViewSet.get_object: get_queryset().get(), the URL's pk is not
\* used.
DemandDetailViewSet_get_object(rows, profile) ==
    IF DemandsOf(rows, profile) = {} THEN Raised("Http404")
    ELSE IF Cardinality(DemandsOf(rows, profile)) > 1 THEN Raised("MultipleObjectsReturned")
         ELSE Returned(CHOOSE i \in DemandsOf(rows, profile) : TRUE)

\* GET demand/<pk> by the logged-in user u.
DemandDetailView(u, pk) ==
    /\ u \in auth_user
    /\ ulast' = Called("web_demand", ProfileOf(ketoappuser, u),
                       DemandDetailView_get_object(demand, ProfileOf(ketoappuser, u), pk),
                       FALSE)
    /\ UNCHANGED <<calcVars, auth_user, ketoappuser, demand, uworkers, taskVars>>

\* GET api/v1/demand/<pk>/ by the user u of the token.
DemandDetailViewSet_retrieve(u, pk) ==
    /\ u \in auth_user
    /\ ulast' = Called("api_demand", ProfileOf(ketoappuser, u),
                       DemandDetailViewSet_get_object(demand, ProfileOf(ketoappuser, u)),
                       FALSE)
    /\ UNCHANGED <<calcVars, auth_user, ketoappuser, demand, uworkers, taskVars>>

NextAccess ==
    \/ NextDemand
    \/ \E u \in Users, pk \in 1..MaxUsers : DemandDetailView(u, pk)
    \/ \E u \in Users, pk \in 1..MaxUsers : DemandDetailViewSet_retrieve(u, pk)

SpecAccess == InitDemand /\ [][NextAccess]_vars

\* C22: a user retrieves only the Demand of their own profile: the web view
\* answers the pk of a row of the caller's profile with that row and every
\* other pk, the pk of another user's Demand included, with not-found; the
\* API view returns the caller's own Demand whatever the pk, and not-found
\* when the caller has none.
C22_OwnDemandOnly ==
    /\ ulast.op = "web_demand" =>
          /\ ulast.raised = "none" <=> ulast.value \in DemandsOf(demand, ulast.pk)
          /\ ulast.raised # "none" => ulast.raised = "Http404"
    /\ ulast.op = "api_demand" =>
          IF DemandsOf(demand, ulast.pk) = {}
          THEN ulast.raised = "Http404"
          ELSE ulast.raised = "none" /\ ulast.value \in DemandsOf(demand, ulast.pk)

\* C22 witness: the web view has been asked for the pk of another user's
\* Demand.
C22_Witness ==
    /\ ulast.op = "web_demand"
    /\ ulast.value \in DOMAIN demand
    /\ demand[ulast.value].keto_app_user # ulast.pk
    /\ ulast.raised = "Http404"

(***************************************************************************)
(* SpecOwnership: the Product handlers with the user of the request.  The  *)
(* requests come from logged-in users (LoginRequiredMixin, the API's       *)
(* authenticated user); every handler is addressed by primary key.         *)
(***************************************************************************)

\* The record of a handler that has completed a request of user u on Products:
\* served is the set of Product rows the handler loaded for it (and returned,
\* overwrote or deleted), d the date in its redirect (web handlers only).
Access(op, u, served, d) ==
    [op |-> op, user |-> u, owner |-> NULL, date |-> d, stale |-> FALSE,
     again |-> FALSE, served |-> served]

AccessOps == {"api_list", "api_retrieve", "api_put", "api_destroy", "web_post", "web_delete"}

\* The rows a user's requests are meant to reach: the Products whose user
\* relation holds the user.
OwnedBy(ps, u) == {i \in Alive(ps) : u \in ps[i].user}

\* ProductViewSet.get_queryset without the optional name/date/ordering query
\* parameters: Product.objects.all(); request.user is not consulted.
ProductViewSet_get_queryset(ps, u) == Alive(ps)

\* GenericAPIView.get_object: the row of the queryset with the pk, else Http404.
ProductViewSet_get_object(ps, u, pk) == ProductViewSet_get_queryset(ps, u) \cap {pk}

\* Product.objects.get(id=pk), Product.objects.filter(id=pk) and the default
\* queryset of DeleteView (model = Product): the row with the pk, whoever owns it.
Product_objects_get(ps, pk) == Alive(ps) \cap {pk}

\* ProductViewSet.list: the serialized queryset.
ProductViewSet_list(u) ==
    /\ last' = Access("api_list", u, ProductViewSet_get_queryset(products, u), NULL)
    /\ UNCHANGED <<products, fdis, workers, requests, userVars, taskVars>>

\* ProductViewSet.retrieve: get_object, serialized.
ProductViewSet_retrieve(u, pk) ==
    /\ last' = Access("api_retrieve", u, ProductViewSet_get_object(products, u, pk), NULL)
    /\ UNCHANGED <<products, fdis, workers, requests, userVars, taskVars>>

\* ProductViewSet.update for the request of user u: get_object, then
\* ProductSerializer.update (instance.save() -> post_save).
ProductViewSet_put(u, pk, g, r) ==
    LET found == ProductViewSet_get_object(products, u, pk)
        saved == [products EXCEPT ![pk] = Remeasured(@, g, r)]
    IN  /\ last' = Access("api_put", u, found, NULL)
        /\ IF found = {}
           THEN UNCHANGED <<products, fdis>>
           ELSE /\ products' = saved
                /\ fdis' = post_save_product(saved, fdis, pk)
        /\ UNCHANGED <<workers, requests, userVars, taskVars>>

\* ProductViewSet.destroy for the request of user u: get_object, instance.delete().
ProductViewSet_delete(u, pk) ==
    LET found == ProductViewSet_get_object(products, u, pk)
    IN  /\ last' = Access("api_destroy", u, found, NULL)
        /\ products' = IF found = {} THEN products ELSE [products EXCEPT ![pk] = Deleted]
        /\ UNCHANGED <<fdis, workers, requests, userVars, taskVars>>

\* ProductMacroNutrientsUpdate.post for the request of user u, valid form:
\* Product.objects.get(id=pk) (DoesNotExist when there is no such row), then
\* Product.objects.filter(id=pk).update(...).
ProductMacroNutrientsUpdate_post(u, pk, g, r) ==
    LET found == Product_objects_get(products, pk)
    IN  /\ last' = Access("web_post", u, found,
                          IF found = {} THEN NULL ELSE products[pk].date)
        /\ products' = IF found = {} THEN products
                       ELSE [products EXCEPT ![pk] = Remeasured(@, g, r)]
        /\ UNCHANGED <<fdis, workers, requests, userVars, taskVars>>

\* ProductDeleteView.post for the request of user u: get_object over
\* Product.objects.all(), self.object.delete().
ProductDeleteView_post(u, pk) ==
    LET found == Product_objects_get(products, pk)
    IN  /\ last' = Access("web_delete", u, found,
                          IF found = {} THEN NULL ELSE products[pk].date)
        /\ products' = IF found = {} THEN products ELSE [products EXCEPT ![pk] = Deleted]
        /\ UNCHANGED <<fdis, workers, requests, userVars, taskVars>>

NextOwnership ==
    \/ \E u \in Users, d \in Dates, g \in Grams : \E r \in get_connection(g) :
          ProductMacroNutrientsCreate(u, d, g, r)
    \/ \E u \in Users : ProductViewSet_list(u)
    \/ \E u \in Users, pk \in DOMAIN products : ProductViewSet_retrieve(u, pk)
    \/ \E u \in Users, pk \in DOMAIN products, g \in Grams : \E r \in get_connection(g) :
          ProductViewSet_put(u, pk, g, r)
    \/ \E u \in Users, pk \in DOMAIN products : ProductViewSet_delete(u, pk)
    \/ \E u \in Users, pk \in DOMAIN products, g \in Grams : \E r \in get_connection(g) :
          ProductMacroNutrientsUpdate_post(u, pk, g, r)
    \/ \E u \in Users, pk \in DOMAIN products : ProductDeleteView_post(u, pk)

SpecOwnership == Init /\ [][NextOwnership]_vars

\* C23: a request reaches only Products of its user: every row a Product
\* handler (API list, retrieve, update, destroy; web update, delete) returns,
\* overwrites or deletes for a request has the requesting user in its user
\* relation.
C23_OwnProductsOnly ==
    [][last'.op \in AccessOps =>
          \A pk \in DOMAIN products :
              (pk \in last'.served \/ products'[pk] # products[pk]) =>
                  pk \in OwnedBy(products, last'.user)]_vars

(***************************************************************************)
(* SpecReport: SendReportPdfView puts send_report messages on the broker's *)
(* queue, and a Celery worker runs send_report for the message at the head *)
(* of the queue, on the tables as they are when it runs.                   *)
(***************************************************************************)

\* The address a valid EmailField holds, and the empty input.
Address == "test@example.com"
Blank == ""

\* The POST data of EmailRequestForm.
EmailRequest(start, end, email) == [start_date |-> start, end_date |-> end, email |-> email]

\* The submissions: one day, both days, a range that ends before it starts,
\* and one without the address.
EmailRequests ==
    {EmailRequest(Today, Today, Address), EmailRequest(Today, Today + 1, Address),
     EmailRequest(Today + 1, Today, Address), EmailRequest(Today, Today + 1, Blank)}

\* EmailRequestForm.is_valid(): the three fields are required.
EmailRequestForm_is_valid(form) ==
    /\ form.start_date # NULL
    /\ form.end_date # NULL
    /\ form.email # Blank

\* (mutant) the range without its last day.
date__range_HalfOpen(d, start, end) == start <= d /\ d < end

\* The lookup date__range=[start, end]: SQL BETWEEN start AND end.
date__range(d, start, end) == start <= d /\ d <= end

\* (mutant) the Products of the range, whoever owns them.
if_product_exists_AnyUser(ps, kuser, start, end) ==
    \E i \in Alive(ps) : date__range(ps[i].date, start, end)

\* SendReportPdfView.if_product_exists for request.user.ketoappuser = kuser.
if_product_exists(ps, kuser, start, end) ==
    \E i \in Alive(ps) : date__range(ps[i].date, start, end) /\ kuser \in ps[i].user

\* The message send_report.delay(user_id, email, start_date, end_date) sends.
Message(user_id, email, start, end) ==
    [task |-> "calculator.tasks.send_report", user_id |-> user_id, email |-> email,
     start_date |-> start, end_date |-> end]

\* The record of a SendReportPdfView request: the user, the form, the
\* template rendered and the number of send_report.delay calls.
Answered(u, form, template, n) ==
    [op |-> "send_report_pdf", user |-> u, form |-> form, template |-> template,
     dispatched |-> n]

\* The record of a run of send_report: its message and the two querysets
\* PDFReportGenerator received, as sets of primary keys.
Generated(msg, ps, ss) ==
    [op |-> "send_report", message |-> msg, products |-> ps, summaries |-> ss]

\* SendReportPdfView.post by the user u of the request, NULL being the
\* AnonymousUser (the view has no LoginRequiredMixin): FormView.post renders
\* the form again when it is invalid, and calls form_valid otherwise, where
\* request.user.ketoappuser raises AttributeError for the AnonymousUser.
SendReportPdfView(u, form) ==
    /\ Len(celery) < MaxRequests - 2
    /\ IF ~EmailRequestForm_is_valid(form)
       THEN /\ last' = Answered(u, form, "send_email.html", 0)
            /\ celery' = celery
       ELSE IF u = NULL
       THEN /\ last' = Answered(u, form, "AttributeError", 0)
            /\ celery' = celery
       ELSE IF ~if_product_exists(products, u, form.start_date, form.end_date)
       THEN /\ last' = Answered(u, form, "no_product_found.html", 0)
            /\ celery' = celery
       ELSE /\ last' = Answered(u, form, "send_email_success.html", 1)
            /\ celery' = Append(celery, Message(u, form.email, form.start_date, form.end_date))
    /\ UNCHANGED <<products, fdis, workers, requests, userVars, authtoken, clock>>

\* A Celery worker takes the message at the head of the queue and runs
\* send_report: the two filter() queries, then the generator and the mail.
send_report ==
    /\ celery # <<>>
    /\ LET msg == Head(celery)
           ps == {i \in Alive(products) :
                     /\ date__range(products[i].date, msg.start_date, msg.end_date)
                     /\ msg.user_id \in products[i].user}
           ss == {i \in DOMAIN fdis :
                     /\ fdis[i].date # NULL
                     /\ date__range(fdis[i].date, msg.start_date, msg.end_date)
                     /\ fdis[i].user = msg.user_id}
       IN  last' = Generated(msg, ps, ss)
    /\ celery' = Tail(celery)
    /\ UNCHANGED <<products, fdis, workers, requests, userVars, authtoken, clock>>

NextReport ==
    \/ \E u \in Users, d \in Dates : \E r \in get_connection(1) :
          ProductMacroNutrientsCreate(u, d, 1, r)
    \/ \E u \in Users \cup {NULL}, form \in EmailRequests : SendReportPdfView(u, form)
    \/ send_report

SpecReport == Init /\ [][NextReport]_vars

\* C24: a submission to SendReportPdfView puts exactly one send_report message
\* (the user's id, the address and the two dates) on the queue when the form
\* is valid and a Product of the requesting user has a date d with
\* start_date <= d <= end_date, and puts none otherwise.
C24_ReportDispatchedOnce ==
    [][last'.op = "send_report_pdf" =>
          LET u == last'.user
              f == last'.form
              due == /\ f.email = Address
                     /\ \E i \in DOMAIN products :
                           /\ products[i].alive
                           /\ u \in products[i].user
                           /\ f.start_date <= products[i].date
                           /\ products[i].date <= f.end_date
          IN  IF due
              THEN /\ Len(celery') = Len(celery) + 1
                   /\ \A k \in DOMAIN celery : celery'[k] = celery[k]
                   /\ celery'[Len(celery')].user_id = u
                   /\ celery'[Len(celery')].email = f.email
                   /\ celery'[Len(celery')].start_date = f.start_date
                   /\ celery'[Len(celery')].end_date = f.end_date
              ELSE celery' = celery]_vars

\* C24 witness: a request has dispatched the task, for a one-day range.
C24_Witness ==
    /\ last.op = "send_report_pdf"
    /\ last.dispatched = 1
    /\ last.form.start_date = last.form.end_date
    /\ celery # <<>>

\* C25: the Products and the FullDayIntake rows send_report hands to the
\* report generator are exactly the rows of the message's user with
\* start_date <= date <= end_date.
C25_ReportRowsOfUserInRange ==
    [][last'.op = "send_report" =>
          LET u == last'.message.user_id
              lo == last'.message.start_date
              hi == last'.message.end_date
          IN  /\ \A i \in DOMAIN products :
                    i \in last'.products <=>
                        /\ products[i].alive
                        /\ u \in products[i].user
                        /\ lo <= products[i].date /\ products[i].date <= hi
              /\ \A i \in DOMAIN fdis :
                    i \in last'.summaries <=>
                        /\ fdis[i].user = u
                        /\ lo <= fdis[i].date /\ fdis[i].date <= hi]_vars

\* C25 witness: a report of two days has been generated for a user while a
\* Product of another user lies in the range.
C25_Witness ==
    /\ last.op = "send_report"
    /\ last.products # {}
    /\ last.summaries # {}
    /\ last.message.start_date < last.message.end_date
    /\ \E i \in Alive(products) : i \notin last.products

(***************************************************************************)
(* SpecMassUpdate: Products made through the web form, and the two mass    *)
(* updates (the web view and the API).  The name a mass update submits is  *)
(* not read by either handler: the lookup uses the stored name.            *)
(***************************************************************************)

NextMassUpdate ==
    \/ \E u \in Users, d \in Dates, g \in Grams : \E r \in get_connection(g) :
          ProductMacroNutrientsCreate(u, d, g, r)
    \/ \E pid \in DOMAIN products, g \in Grams : \E r \in get_connection(g) :
          ProductMacroNutrientsUpdate(pid, g, r)
    \/ \E pid \in DOMAIN products, g \in Grams : \E r \in get_connection(g) :
          ProductViewSet_update(pid, g, r)

SpecMassUpdate == Init /\ [][NextMassUpdate]_vars

\* The columns of a Product row that a mass update may write.
MassColumns == {"grams", "kcal", "carb", "fat", "protein"}

\* C26: a mass update (web or API) leaves every Product row but one as it
\* was, adds and removes none, and in that one row changes no column other
\* than grams, kcal, carb, fat and protein (name, date and user relation
\* stay), the four macros being the ones the lookup gives for the new grams.
C26_MassUpdateFrame ==
    [][last'.op \in {"web_update", "api_update"} =>
          /\ DOMAIN products' = DOMAIN products
          /\ \E pid \in DOMAIN products :
                /\ \A q \in DOMAIN products \ {pid} : products'[q] = products[q]
                /\ \A f \in DOMAIN products[pid] \ MassColumns :
                      products'[pid][f] = products[pid][f]
                /\ \E r \in get_connection(products'[pid].grams) :
                      /\ products'[pid].kcal = r.calories
                      /\ products'[pid].carb = r.CHOCDF
                      /\ products'[pid].fat = r.FAT
                      /\ products'[pid].protein = r.PROCNT]_vars

\* C26 witness: after a web mass update two Products exist on different
\* dates, one with the macros of one gram and one with those of two.
C26_Witness ==
    /\ last.op = "web_update"
    /\ \E i, j \in Alive(products) :
          /\ products[i].grams = 1 /\ products[j].grams = 2
          /\ products[i].date # products[j].date
          /\ products[i].user # products[j].user

(***************************************************************************)
(* SpecForm: the web create and update views with the data of the POST as  *)
(* submitted, before ProductRequestForm has validated it.                  *)
(***************************************************************************)

Digits == {"0", "1", "2", "3", "4", "5", "6", "7", "8", "9"}

\* The product_name values submitted: a name, a name with a digit, and the
\* field left out (the update form of the tests).
SubmittedNames == {ProductName, <<"1", "A", "p", "p", "l", "e">>, <<>>}

\* The grams values submitted.
SubmittedGrams == Grams \cup {-50}

\* name_validator: TRUE when it raises no ValidationError.
name_validator(value) == \A i \in DOMAIN value : value[i] \notin Digits

\* ProductRequestForm.is_valid(): product_name is required and passes
\* name_validator; grams is an IntegerField without min_value.
ProductRequestForm_is_valid(name, g) ==
    /\ name # <<>>
    /\ name_validator(name)
    /\ g \in Int

\* The CHECK (grams >= 0) of the PositiveIntegerField column.
Product_grams_check(g) == g = NULL \/ g >= 0

\* The record of a POST to the create or update form that wrote nothing: the
\* data submitted and what answered it.
Submitted(op, u, name, g, response) ==
    [op |-> op, user |-> u, name |-> name, grams |-> g, response |-> response]

\* A POST that ends before or in its first write.
Refused(op, u, name, g, response) ==
    /\ last' = Submitted(op, u, name, g, response)
    /\ UNCHANGED <<products, fdis, workers, requests, userVars, taskVars>>

\* ProductMacroNutrientsCreate.post with the submitted data: the form with
\* its errors when it is invalid; else the lookup and Product.objects.create,
\* which raises IntegrityError on a negative grams.
Form_web_create(u, d, name, g) ==
    IF ~ProductRequestForm_is_valid(name, g)
    THEN Refused("form_web_create", u, name, g, "product_nutrients_form.html")
    ELSE IF ~Product_grams_check(g)
    THEN Refused("form_web_create", u, name, g, "IntegrityError")
    ELSE \E r \in get_connection(g) : ProductMacroNutrientsCreate(u, d, g, r)

\* ProductMacroNutrientsUpdate.post with the submitted data: the form with
\* its errors when it is invalid; else Product.objects.get, the lookup and
\* update(), which raises IntegrityError on a negative grams.
Form_web_update(u, pid, name, g) ==
    /\ pid \in Alive(products)
    /\ IF ~ProductRequestForm_is_valid(name, g)
       THEN Refused("form_web_update", u, name, g, "product_nutrients_form.html")
       ELSE IF ~Product_grams_check(g)
       THEN Refused("form_web_update", u, name, g, "IntegrityError")
       ELSE \E r \in get_connection(g) : ProductMacroNutrientsUpdate(pid, g, r)

NextForm ==
    \/ \E u \in Users, d \in Dates, name \in SubmittedNames, g \in SubmittedGrams :
          Form_web_create(u, d, name, g)
    \/ \E u \in Users, pid \in DOMAIN products, name \in SubmittedNames, g \in SubmittedGrams :
          Form_web_update(u, pid, name, g)

SpecForm == Init /\ [][NextForm]_vars

\* C27: a create or update submission whose product name holds a digit or
\* whose grams is negative is answered with the form and its errors, and no
\* Product row and no FullDayIntake row is added or changed.
C27_InvalidSubmissionRefused ==
    [][(/\ last'.op \in {"form_web_create", "form_web_update"}
        /\ \/ \E i \in DOMAIN last'.name : last'.name[i] \in Digits
           \/ last'.grams < 0) =>
          /\ last'.response = "product_nutrients_form.html"
          /\ products' = products
          /\ fdis' = fdis]_vars

(***************************************************************************)
(* SpecTokens: the periodic task regenerate_tokens on a token table whose  *)
(* rows were created on different days, and the profile page, which gives  *)
(* a user without a token a new one.  Each statement of the task commits   *)
(* on its own (autocommit; the task opens no transaction).                 *)
(***************************************************************************)

\* timedelta(days=30)
ExpiryDays == 30

\* The days on which the tokens of the registered users were created, and
\* the later days to which the time advances.
CreatedDays == {Today - ExpiryDays - 1, Today - ExpiryDays, Today}
LaterDays == {Today + ExpiryDays, Today + ExpiryDays + 1}

InitTokens ==
    /\ CalcAtRest
    /\ auth_user = Users
    /\ ketoappuser = [u \in Users |-> KetoAppUser(u)]
    /\ demand = <<>>
    /\ ulast = Called("none", 0, Returned(NULL), FALSE)
    /\ uworkers = [w \in Workers |-> UIdle]
    /\ \E created \in [Users -> CreatedDays] :
          authtoken = [rows |-> {Token(u, u, created[u]) : u \in Users}, issued |-> MaxUsers]

\* Token.objects.filter(created__lt=expiry_date)
ExpiredTokens(rows, expiry_date) == {t \in rows : t.created < expiry_date}

\* Token.objects.bulk_create(objs) on day now: one INSERT of the instances as
\* they are (Model.save() is not called, so Token.save() generates no key;
\* auto_now_add fills created), refused as a whole when two rows would share
\* the primary key or the user.
bulk_create(rows, objs, now) ==
    LET new == {Token(t.key, t.user, now) : t \in objs}
        all == rows \cup new
        unique == /\ Cardinality(new) = Cardinality(objs)
                  /\ rows \cap new = {}
                  /\ \A a, b \in all : (a.key = b.key \/ a.user = b.user) => a = b
    IN  IF unique THEN [raised |-> "none", rows |-> all]
        ELSE [raised |-> "IntegrityError", rows |-> rows]

\* The record of a run of regenerate_tokens or of a profile page request.
Ran(op, now, raised) == [op |-> op, now |-> now, raised |-> raised]

\* regenerate_tokens: the instances to_create are built with
\* Token(user_id=user), key unset; tokens.delete(); bulk_create(to_create).
regenerate_tokens ==
    /\ LET now == clock
           expiry_date == now - ExpiryDays
           tokens == ExpiredTokens(authtoken.rows, expiry_date)
           to_create == {Token(EmptyKey, t.user, NULL) : t \in tokens}
           deleted == authtoken.rows \ tokens
           result == bulk_create(deleted, to_create, now)
       IN  /\ authtoken' = [authtoken EXCEPT !.rows = result.rows]
           /\ last' = Ran("regenerate_tokens", now, result.raised)
    /\ UNCHANGED <<products, fdis, workers, requests, userVars, celery, clock>>

\* ProfileView.get_context_data of the user u:
\* Token.objects.get_or_create(user=request.user).
ProfileView(u) ==
    /\ authtoken' = IF \E t \in authtoken.rows : t.user = u
                    THEN authtoken
                    ELSE Token_objects_create(authtoken, u, clock)
    /\ last' = Ran("profile", clock, "none")
    /\ UNCHANGED <<products, fdis, workers, requests, userVars, celery, clock>>

\* Celery Beat's period passes.
Later(day) ==
    /\ day > clock
    /\ clock' = day
    /\ last' = Ran("later", day, "none")
    /\ UNCHANGED <<products, fdis, workers, requests, userVars, authtoken, celery>>

NextTokens ==
    \/ regenerate_tokens
    \/ \E u \in Users : ProfileView(u)
    \/ \E day \in LaterDays : Later(day)

SpecTokens == InitTokens /\ [][NextTokens]_vars

\* C28: a run of regenerate_tokens leaves every user whose token was created
\* more than 30 days before with exactly one token, whose key is not empty
\* and is not the key of the deleted token; it leaves every token created
\* within the last 30 days as it was; and every user that had a token has one.
C28_ExpiredTokensReplaced ==
    [][last'.op = "regenerate_tokens" =>
          LET now == last'.now
              before == authtoken.rows
              after == authtoken'.rows
          IN  /\ \A t \in before :
                    IF t.created < now - 30
                    THEN /\ Cardinality({n \in after : n.user = t.user}) = 1
                         /\ \A n \in after :
                               n.user = t.user => n.key # EmptyKey /\ n.key # t.key
                    ELSE t \in after
              /\ \A t \in before : \E n \in after : n.user = t.user]_vars

\* C29: after every step, a FullDayIntake row whose date has a Product has
\* an owner that is not null and is an owner of a Product of that date, the
\* state between the creation of a Product by the web form and the
\* attachment of its owner included; and no step turns the owner of a row
\* from a user to null.
C29_IntakeOwnerKept ==
    [][/\ \A i \in DOMAIN fdis' :
             OnDate(products', fdis'[i].date) # {} =>
                 /\ fdis'[i].user # NULL
                 /\ \E p \in OnDate(products', fdis'[i].date) :
                       fdis'[i].user \in products'[p].user
       /\ \A i \in DOMAIN fdis : fdis[i].user # NULL => fdis'[i].user # NULL]_vars

====
